---- MODULE Spec2Model ----
(***************************************************************************)
(* A model of cdf2cim/io_manager.py: encode (canonicalisation of a         *)
(* map/reduce output), yield_files / yield_cf_files (file discovery and    *)
(* the stream of opened CF files) and dump (content-addressed              *)
(* persistence of a record in IO_DIR).                                     *)
(*                                                                         *)
(* Four specifications share the module:                                   *)
(*   SpecEncode  encode applied to a record drawn from a bounded set;      *)
(*   Spec        one caller consuming yield_cf_files(targets) over a fixed *)
(*               file system, targets drawn from a bounded set;            *)
(*   SpecDump    one process calling dump time after time;                 *)
(*   SpecRace    two processes each calling dump once, their steps         *)
(*               interleaved.                                              *)
(***************************************************************************)
EXTENDS Integers, Sequences, FiniteSets, TLC

VARIABLES
    \* ---- encode harness
    obj,        \* the record handed to encode: a sequence of [k, v] pairs in insertion order
    result,     \* NotRun, or what encode(obj) produced
    twice,      \* NotRun, or what encode produced when handed the dictionary of result
    \* ---- yield_files / yield_cf_files
    targets,    \* the argument of yield_cf_files
    gstate,     \* yield_files generator: none, created, suspended, raised, done
    gcrit,      \* yield_files: criteria of line 87 not yet iterated
    gwalk,      \* yield_files: position inside os.walk
    gerror,     \* NoError, or the value InvalidFileSearchCriteria carries
    gkept,      \* history: the criteria set after the de-dupe loop of lines 81-84
    yielded,    \* history: the paths yield_files has yielded
    cfstate,    \* yield_cf_files generator: created, running, suspended, raised, done, closed
    handles,    \* number of files cf holds open
    records,    \* history: the CF files yield_cf_files has yielded (named by path)
    warnings,   \* history: the paths logged by logger.log_warning
    \* ---- dump
    iodir,      \* whether IO_DIR is a directory
    files,      \* the regular files of IO_DIR: path -> content
    mtime,      \* history: path -> number of times it was opened for writing
    proc,       \* per process: the position and the locals of its dump call
    started,    \* history: the calls begun, as [obj, name, overwrite]
    rets,       \* history: the calls that ended, as [p, obj, name, overwrite, fpath, wrote, exc,
                \* content], content what the file at fpath held as the call ended
    ncalls,     \* number of calls begun
    quota,      \* per process: the calls it may still begin
    nuuid       \* number of uuid4 tokens drawn

encVars == <<obj, result, twice>>
locVars == <<targets, gstate, gcrit, gwalk, gerror, gkept, yielded, cfstate, handles,
             records, warnings>>
dumpVars == <<iodir, files, mtime, proc, started, rets, ncalls, quota, nuuid>>
vars == <<encVars, locVars, dumpVars>>

(***************************************************************************)
(* Bounds of the model.                                                    *)
(***************************************************************************)
MaxKeys == 2        \* keys of a record handed to encode
MaxCriteria == 3    \* elements of a criteria collection
MaxCalls == 3       \* dump calls begun in one behaviour
BufSize == 2        \* lines of text one write(2) of the file stream carries

(***************************************************************************)
(* Character strings.  A string whose characters the code inspects is a    *)
(* sequence of one-character strings; Ord gives the code point Python      *)
(* compares by.                                                            *)
(***************************************************************************)
Ord(ch) ==
    CASE ch = "/" -> 47
      [] ch = "A" -> 65
      [] ch = "B" -> 66
      [] ch = "X" -> 88
      [] ch = "_" -> 95
      [] ch = "a" -> 97
      [] ch = "b" -> 98
      [] ch = "c" -> 99
      [] ch = "d" -> 100
      [] ch = "e" -> 101
      [] ch = "f" -> 102
      [] ch = "i" -> 105
      [] ch = "n" -> 110
      [] ch = "s" -> 115
      [] ch = "t" -> 116
      [] ch = "x" -> 120

\* a < b for two sequences of code points, as Python orders str
LexLess(a, b) ==
    \E i \in 1..(Len(b)) :
        /\ \A j \in 1..(i - 1) : j <= Len(a) /\ a[j] = b[j]
        /\ \/ i = Len(a) + 1
           \/ i <= Len(a) /\ a[i] < b[i]

Codes(str) == [i \in 1..Len(str) |-> Ord(str[i])]

\* sorted(S) for a set S of strings
RECURSIVE Sorted(_)
Sorted(S) ==
    IF S = {} THEN <<>>
    ELSE LET m == CHOOSE x \in S : \A y \in S \ {x} : LexLess(Codes(x), Codes(y))
         IN <<m>> \o Sorted(S \ {m})

EndsWith(str, suffix) ==
    /\ Len(str) >= Len(suffix)
    /\ SubSeq(str, Len(str) - Len(suffix) + 1, Len(str)) = suffix

Range(seq) == {seq[i] : i \in 1..Len(seq)}

(***************************************************************************)
(* encode (lines 28-54).                                                   *)
(*                                                                         *)
(* A value is [t, n, s]: t its Python type, n its numeric content and s    *)
(* its str content.  A floating-point content is held in tenths (30 is     *)
(* 3.0, -37 is -3.7).  An ndarray has no content the model reads.  The     *)
(* value Raise(E) stands for exception E leaving the call.                 *)
(***************************************************************************)
IndexSuffix == <<"_", "i", "n", "d", "e", "x">>

Num(type, n) == [t |-> type, n |-> n, s |-> ""]
Text(s) == [t |-> "str", n |-> 0, s |-> s]
Raise(e) == [t |-> "raise", n |-> 0, s |-> e]

\* float(value), line 42
PyFloat(value) == Num("float", value.n)

\* int(x) of a float held in tenths: truncation towards zero
Trunc(tenths) == IF tenths >= 0 THEN tenths \div 10 ELSE -((-tenths) \div 10)

\* int(value), lines 44 and 46
PyInt(value) ==
    CASE value.t \in {"float", "numpy.float64"} -> Num("int", Trunc(value.n))
      [] value.t \in {"int", "numpy.int32"} -> Num("int", value.n)
      [] value.t = "str" -> IF value.s = "3" THEN Num("int", 3) ELSE Raise("ValueError")
      [] OTHER -> Raise("TypeError")

\* _encode, lines 37-48
Encode1(key, value) ==
    IF value.t = "numpy.float64" THEN PyFloat(value)
    ELSE IF value.t = "numpy.int32" THEN PyInt(value)
    ELSE IF EndsWith(key, IndexSuffix) THEN PyInt(value)
    ELSE value

Keys(o) == {o[i].k : i \in 1..Len(o)}
Get(o, key) == (CHOOSE i \in 1..Len(o) : o[i].k = key)
ValueOf(o, key) == o[Get(o, key)].v

\* encode with `for k in obj.keys()` at line 51: the keys in insertion order
encodeInsertionOrder(o) ==
    LET out == [i \in 1..Len(o) |-> [k |-> o[i].k, v |-> Encode1(o[i].k, o[i].v)]]
        bad == {i \in 1..Len(o) : out[i].v.t = "raise"}
    IN IF bad = {} THEN [exc |-> "none", dict |-> out]
       ELSE [exc |-> out[CHOOSE i \in bad : \A j \in bad : i <= j].v.s, dict |-> <<>>]

\* encode, lines 50-54: the OrderedDict as a sequence of [k, v] pairs, or the
\* exception _encode raised on the first key (in sorted order) that raises
encode(o) ==
    LET ks == Sorted(Keys(o))
        out == [i \in 1..Len(ks) |-> [k |-> ks[i], v |-> Encode1(ks[i], ValueOf(o, ks[i]))]]
        bad == {i \in 1..Len(ks) : out[i].v.t = "raise"}
    IN IF bad = {} THEN [exc |-> "none", dict |-> out]
       ELSE [exc |-> out[CHOOSE i \in bad : \A j \in bad : i <= j].v.s, dict |-> <<>>]

(***************************************************************************)
(* The records encode is applied to.                                       *)
(***************************************************************************)
KeyA == <<"a">>
KeyB == <<"b">>
KeyAIndex == <<"a">> \o IndexSuffix
KeyIndex == <<"i", "n", "d", "e", "x">>
EncKeys == {KeyA, KeyB, KeyAIndex, KeyIndex}

EncValues ==
    { Num("numpy.float64", 30), Num("numpy.float64", 37), Num("numpy.int32", 3),
      Num("float", 30), Num("float", -37), Num("int", 3),
      Text("3"), Text("abc"), Num("numpy.ndarray", 0) }

EncPairs == [k : EncKeys, v : EncValues]

\* sequences of at most n pairs with pairwise distinct keys
RECURSIVE RecordsUpTo(_)
RecordsUpTo(n) ==
    IF n = 0 THEN {<<>>}
    ELSE LET shorter == RecordsUpTo(n - 1)
         IN shorter \cup {Append(r, p) : r \in shorter, p \in EncPairs}

EncRecords == {r \in RecordsUpTo(MaxKeys) : Cardinality(Keys(r)) = Len(r)}

NotRun == [exc |-> "notrun", dict |-> <<>>]

(***************************************************************************)
(* Path strings and the os.path functions yield_files calls.               *)
(***************************************************************************)
Slash == <<"/">>

\* str.rfind('/') + 1
RFindSlash(p) ==
    LET at == {i \in 1..Len(p) : p[i] = "/"}
    IN IF at = {} THEN 0 ELSE CHOOSE i \in at : \A j \in at : j <= i

AllSlashes(p) == \A i \in 1..Len(p) : p[i] = "/"

\* str.rstrip('/')
RECURSIVE RStripSlash(_)
RStripSlash(p) ==
    IF p # <<>> /\ p[Len(p)] = "/" THEN RStripSlash(SubSeq(p, 1, Len(p) - 1)) ELSE p

\* os.path.dirname
dirname(p) ==
    LET head == SubSeq(p, 1, RFindSlash(p))
    IN IF head # <<>> /\ ~AllSlashes(head) THEN RStripSlash(head) ELSE head

\* os.path.join(a, b), b relative
join(a, b) == IF a = <<>> \/ a[Len(a)] = "/" THEN a \o b ELSE a \o Slash \o b

\* str.split('/') without its empty components
RECURSIVE Components(_)
Components(p) ==
    IF p = <<>> THEN <<>>
    ELSE IF Head(p) = "/" THEN Components(Tail(p))
    ELSE LET rest == Components(Tail(p))
         IN IF Len(p) > 1 /\ p[2] # "/" THEN <<<<Head(p)>> \o Head(rest)>> \o Tail(rest)
            ELSE <<<<Head(p)>>>> \o rest

RECURSIVE JoinComponents(_)
JoinComponents(cs) ==
    IF cs = <<>> THEN <<>> ELSE Slash \o Head(cs) \o JoinComponents(Tail(cs))

\* os.path.abspath of an absolute path without . and .. components
abspath(p) == IF Components(p) = <<>> THEN Slash ELSE JoinComponents(Components(p))

(***************************************************************************)
(* The file system the search runs over: / holds directory A; A holds      *)
(* file f and directory B; B holds files c and t and the dangling          *)
(* symbolic link s.  /X does not exist.  cf.read accepts f and c.          *)
(***************************************************************************)
PRoot == Slash
PA == <<"/", "A">>
PAf == <<"/", "A", "/", "f">>
PAB == <<"/", "A", "/", "B">>
PABslash == <<"/", "A", "/", "B", "/">>
PABc == <<"/", "A", "/", "B", "/", "c">>
PABt == <<"/", "A", "/", "B", "/", "t">>
PABs == <<"/", "A", "/", "B", "/", "s">>
PX == <<"/", "X">>

EntryNames == {<<"A">>, <<"B">>, <<"c">>, <<"f">>, <<"s">>, <<"t">>, <<"X">>}

\* what lstat finds at a normalised path
EntryKind(n) ==
    CASE n \in {PRoot, PA, PAB} -> "dir"
      [] n \in {PAf, PABc, PABt} -> "file"
      [] n = PABs -> "danglinglink"
      [] OTHER -> "none"

\* what stat finds at a path string: a trailing slash resolves only on a directory,
\* a dangling link resolves to nothing
Stat(p) ==
    LET k == EntryKind(abspath(p))
    IN IF k = "dir" THEN "dir"
       ELSE IF k = "file" /\ p[Len(p)] # "/" THEN "file"
       ELSE "none"

exists(p) == Stat(p) # "none"
isfile(p) == Stat(p) = "file"
isdir(p) == Stat(p) = "dir"
listdir(p) == {n \in EntryNames : EntryKind(abspath(join(p, n))) # "none"}

\* cf.read(fpath, ignore_read_error=False): TRUE when it returns, FALSE when it raises IOError
ReadAccepts(fpath) == fpath \in {PAf, PABc}

(***************************************************************************)
(* yield_files (lines 57-93).                                              *)
(*                                                                         *)
(* The argument is [kind, elems]: kind "str" (one string, elems holds it), *)
(* "list" (a list, tuple or set), "iter" (a one-shot iterator) or "int"    *)
(* (not iterable); an element is [t, v], t "str" with v the path string,   *)
(* or t "int".                                                             *)
(***************************************************************************)
Str(p) == [t |-> "str", v |-> p]
NotAString == [t |-> "int", v |-> <<>>]

\* lines 69-70
Wrapped(c) == IF c.kind = "str" THEN [kind |-> "list", elems |-> c.elems] ELSE c

\* isinstance(criteria, collections.Iterable), line 73
IsIterable(c) == c.kind \in {"list", "iter"}

\* what iterating the criteria produces the first time (line 75) and any later time
\* (lines 77 and 81): an iterator is spent by its first iteration
FirstPass(c) == c.elems
LaterPass(c) == IF c.kind = "iter" THEN <<>> ELSE c.elems

\* lines 73-78: the criteria InvalidFileSearchCriteria is raised with, or NoError
NoError == [kind |-> "noerror", elems |-> <<>>]
Validate(c) ==
    IF ~IsIterable(c) THEN c
    ELSE IF \E e \in Range(FirstPass(c)) : e.t # "str" THEN c
    ELSE IF \E e \in Range(LaterPass(c)) : ~exists(e.v) THEN c
    ELSE NoError

\* lines 82-84: the loop over sorted(criteria), removing from the set it tests
RECURSIVE DedupeLoop(_, _)
DedupeLoop(todo, criteria) ==
    IF todo = <<>> THEN criteria
    ELSE DedupeLoop(Tail(todo),
                    IF dirname(Head(todo)) \in criteria
                    THEN criteria \ {Head(todo)} ELSE criteria)

\* set(criteria), line 81
CriteriaSet(c) == {e.v : e \in Range(LaterPass(c))}

\* the criteria with lines 82-84 left out
NoDedupe(c) == CriteriaSet(c)

\* lines 81-84
Dedupe(c) == DedupeLoop(Sorted(CriteriaSet(c)), CriteriaSet(c))

\* the orders a set may be listed in
Orders(S) ==
    {s \in [1..Cardinality(S) -> S] : \A i, j \in 1..Cardinality(S) : s[i] = s[j] => i = j}

IdleWalk == [stack |-> <<>>, folder |-> <<>>, fnames |-> {}]
End == [end |-> TRUE, val |-> <<>>, crit |-> {}, walk |-> IdleWalk]

\* lines 87-93 from one yield (or the loop's start) to the next yield or the end:
\* the set of [end, val, crit, walk] the run may arrive at.  walk.stack holds the
\* directories os.walk has still to list, walk.fnames the names of the current
\* folder still to be yielded; listing order and set iteration order are free.
RECURSIVE Advance(_, _)
Advance(crit, walk) ==
    IF walk.fnames # {} THEN
        {[end |-> FALSE, val |-> abspath(join(walk.folder, n)), crit |-> crit,
          walk |-> [walk EXCEPT !.fnames = @ \ {n}]] : n \in walk.fnames}
    ELSE IF walk.stack # <<>> THEN
        LET top == Head(walk.stack)
            dirs == {n \in listdir(top) : isdir(join(top, n))}
            nondirs == listdir(top) \ dirs
        IN UNION {Advance(crit,
                          [stack |-> [i \in 1..Len(o) |-> join(top, o[i])] \o Tail(walk.stack),
                           folder |-> top, fnames |-> nondirs]) : o \in Orders(dirs)}
    ELSE IF crit # {} THEN
        UNION {IF isfile(target)
               THEN {[end |-> FALSE, val |-> abspath(target), crit |-> crit \ {target},
                      walk |-> IdleWalk]}
               ELSE IF isdir(target)
               THEN Advance(crit \ {target}, [IdleWalk EXCEPT !.stack = <<target>>])
               ELSE Advance(crit \ {target}, IdleWalk) : target \in crit}
    ELSE {End}

\* next() on the generator: from "created" the body runs from line 69, from
\* "suspended" it goes on after its yield
Steps ==
    IF gstate = "created" THEN Advance(Dedupe(Wrapped(targets)), IdleWalk)
    ELSE Advance(gcrit, gwalk)

Raises == gstate = "created" /\ Validate(Wrapped(targets)) # NoError

(***************************************************************************)
(* yield_cf_files (lines 96-113) and its caller.                           *)
(***************************************************************************)
\* a close that releases nothing
CloseNothing(n) == n

\* cf.close_one_file(), line 113
close_one_file(n) == IF n > 0 THEN n - 1 ELSE 0

\* line 105: yield_files(targets) is called; a generator function's call runs none of
\* its body
CallYieldFiles ==
    /\ cfstate = "created" /\ gstate = "none"
    /\ gstate' = "created"
    /\ cfstate' = "running"
    /\ UNCHANGED <<encVars, dumpVars, targets, gcrit, gwalk, gerror, gkept, yielded, handles, records, warnings>>

\* line 105, first next(): lines 74, 76 or 78 raise and the exception leaves both
\* generators
RaiseInvalid ==
    /\ cfstate = "running" /\ Raises
    /\ gstate' = "raised"
    /\ gerror' = Validate(Wrapped(targets))
    /\ cfstate' = "raised"
    /\ UNCHANGED <<encVars, dumpVars, targets, gcrit, gwalk, gkept, yielded, handles, records, warnings>>

\* line 105, next(): yield_files returns, the for loop and yield_cf_files end
StopIteration ==
    /\ cfstate = "running" /\ gstate \in {"created", "suspended"} /\ ~Raises
    /\ End \in Steps
    /\ gstate' = "done"
    /\ cfstate' = "done"
    /\ gkept' = IF gstate = "created" THEN Dedupe(Wrapped(targets)) ELSE gkept
    /\ gcrit' = {} /\ gwalk' = IdleWalk
    /\ UNCHANGED <<encVars, dumpVars, targets, gerror, yielded, handles, records, warnings>>

\* lines 105-111: yield_files yields fpath, cf.read returns, the CF file is yielded
ReadOk ==
    /\ cfstate = "running" /\ gstate \in {"created", "suspended"} /\ ~Raises
    /\ \E s \in Steps :
        /\ ~s.end /\ ReadAccepts(s.val)
        /\ gcrit' = s.crit /\ gwalk' = s.walk
        /\ yielded' = Append(yielded, s.val)
        /\ records' = Append(records, s.val)
    /\ handles' = handles + 1
    /\ gstate' = "suspended"
    /\ cfstate' = "suspended"
    /\ gkept' = IF gstate = "created" THEN Dedupe(Wrapped(targets)) ELSE gkept
    /\ UNCHANGED <<encVars, dumpVars, targets, gerror, warnings>>

\* lines 105-107 without the except clause: the reader's IOError leaves the generator
ReadFailPropagates ==
    /\ cfstate = "running" /\ gstate \in {"created", "suspended"} /\ ~Raises
    /\ \E s \in Steps :
        /\ ~s.end /\ ~ReadAccepts(s.val)
        /\ gcrit' = s.crit /\ gwalk' = s.walk
        /\ yielded' = Append(yielded, s.val)
    /\ gstate' = "suspended"
    /\ cfstate' = "raised"
    /\ gkept' = IF gstate = "created" THEN Dedupe(Wrapped(targets)) ELSE gkept
    /\ UNCHANGED <<encVars, dumpVars, targets, gerror, handles, records, warnings>>

\* lines 105-109: yield_files yields fpath, cf.read raises IOError or OSError, the
\* warning is logged and the loop goes on
ReadFail ==
    /\ cfstate = "running" /\ gstate \in {"created", "suspended"} /\ ~Raises
    /\ \E s \in Steps :
        /\ ~s.end /\ ~ReadAccepts(s.val)
        /\ gcrit' = s.crit /\ gwalk' = s.walk
        /\ yielded' = Append(yielded, s.val)
        /\ warnings' = Append(warnings, s.val)
    /\ gstate' = "suspended"
    /\ gkept' = IF gstate = "created" THEN Dedupe(Wrapped(targets)) ELSE gkept
    /\ UNCHANGED <<encVars, dumpVars, targets, gerror, cfstate, handles, records>>

\* the caller's next() on the suspended generator: line 113, then the loop goes on
Resume ==
    /\ cfstate = "suspended"
    /\ handles' = close_one_file(handles)
    /\ cfstate' = "running"
    /\ UNCHANGED <<encVars, dumpVars, targets, gstate, gcrit, gwalk, gerror, gkept, yielded, records, warnings>>

\* the caller stops iterating: close() (or the collector) raises GeneratorExit at the
\* yield of line 111, or drops a generator never started; line 113 is not run
Abandon ==
    /\ cfstate \in {"created", "suspended"}
    /\ cfstate' = "closed"
    /\ UNCHANGED <<encVars, dumpVars, targets, gstate, gcrit, gwalk, gerror, gkept, yielded, handles, records,
                   warnings>>

(***************************************************************************)
(* The arguments yield_cf_files is called with.                            *)
(***************************************************************************)
CriteriaElems == {Str(PRoot), Str(PA), Str(PAB), Str(PABslash), Str(PABc), Str(PX), NotAString}

RECURSIVE SeqsUpTo(_, _)
SeqsUpTo(S, n) ==
    IF n = 0 THEN {<<>>}
    ELSE LET shorter == SeqsUpTo(S, n - 1)
         IN shorter \cup {Append(q, e) : q \in shorter, e \in S}

Targets ==
    {[kind |-> "str", elems |-> <<e>>] : e \in CriteriaElems \ {NotAString}}
    \cup {[kind |-> "int", elems |-> <<>>]}
    \cup {[kind |-> k, elems |-> q] : k \in {"list", "iter"}, q \in SeqsUpTo(CriteriaElems, MaxCriteria)}

(***************************************************************************)
(* dump (lines 116-149).                                                   *)
(*                                                                         *)
(* A text is a sequence of lines, a line the pair [k, v] it prints or a    *)
(* brace.  A file of IO_DIR is named by how its name was made: the md5     *)
(* fingerprint of a text, or the n-th uuid4 token drawn.                   *)
(***************************************************************************)
Line(k, v) == [k |-> k, v |-> v]
OpenBrace == Line(<<>>, [t |-> "brace", n |-> 0, s |-> "{"])
CloseBrace == Line(<<>>, [t |-> "brace", n |-> 0, s |-> "}"])
\* a line of a file that was skipped over and never written
Hole == Line(<<>>, [t |-> "hole", n |-> 0, s |-> ""])

\* the types json.dumps serialises (numpy.float64 is a subclass of float)
JsonNative(value) == value.t \in {"float", "int", "str", "numpy.float64"}
JsonLiteral(value) == IF value.t = "numpy.float64" THEN PyFloat(value) ELSE value

\* a serialiser that prints a value of any type and never raises
dumpsAnything(metadata) ==
    [exc |-> "none",
     text |-> <<OpenBrace>>
              \o [i \in 1..Len(metadata) |-> Line(metadata[i].k, JsonLiteral(metadata[i].v))]
              \o <<CloseBrace>>]

\* json.dumps(metadata, indent=4), line 135: one line per key between the braces, or
\* TypeError
dumps(metadata) ==
    IF \E i \in 1..Len(metadata) : ~JsonNative(metadata[i].v)
    THEN [exc |-> "TypeError", text |-> <<>>]
    ELSE [exc |-> "none",
          text |-> <<OpenBrace>>
                   \o [i \in 1..Len(metadata) |->
                          Line(metadata[i].k, JsonLiteral(metadata[i].v))]
                   \o <<CloseBrace>>]

\* hashifier.hashify(metadata, metadata_json), line 139: a deterministic identifier of
\* the canonical content, distinct contents getting distinct identifiers
hashify(metadata, metadata_json) == metadata_json

\* line 144
Md5Path(fname) == [kind |-> "md5", text |-> fname, n |-> 0]
\* the path made without the token drawn
UuidPathFixed(fname) == [kind |-> "uuid", text |-> <<>>, n |-> 0]
UuidPath(fname) == [kind |-> "uuid", text |-> <<>>, n |-> fname]
NoPath == [kind |-> "none", text |-> <<>>, n |-> 0]

\* os.path.isfile(fpath), line 145
IsFile(fpath) == fpath \in DOMAIN files

\* the file after `chunk` is written at line offset `off`
WriteAt(content, off, chunk) ==
    [i \in 1..(IF Len(content) > off + Len(chunk) THEN Len(content) ELSE off + Len(chunk)) |->
        IF i > off /\ i <= off + Len(chunk) THEN chunk[i - off]
        ELSE IF i <= Len(content) THEN content[i]
        ELSE Hole]

Min(a, b) == IF a < b THEN a ELSE b

\* the records dump is called with: a's and a_index's values in the two insertion
\* orders, another content, and a record json.dumps cannot serialise
RecAB == <<[k |-> KeyA, v |-> Num("numpy.float64", 37)], [k |-> KeyAIndex, v |-> Num("float", 30)]>>
RecBA == <<[k |-> KeyAIndex, v |-> Num("float", 30)], [k |-> KeyA, v |-> Num("numpy.float64", 37)]>>
RecB == <<[k |-> KeyB, v |-> Num("numpy.int32", 3)]>>
RecArray == <<[k |-> KeyA, v |-> Num("numpy.ndarray", 0)]>>
DumpRecords == {RecAB, RecBA, RecB, RecArray}

Procs == {1, 2}

Idle == [pc |-> "idle", obj |-> <<>>, name |-> "md5", overwrite |-> FALSE,
         text |-> <<>>, fpath |-> NoPath, off |-> 0, sent |-> 0]

Returned(p, wrote, exc, content) ==
    [p |-> p, obj |-> proc[p].obj, name |-> proc[p].name,
     overwrite |-> proc[p].overwrite, fpath |-> proc[p].fpath, wrote |-> wrote, exc |-> exc,
     content |-> content]

\* dump(obj, name, overwrite) is called
Call(p) ==
    /\ proc[p].pc = "idle" /\ quota[p] > 0
    /\ \E o \in DumpRecords, nm \in {"md5", "uuid"}, ow \in BOOLEAN :
        /\ proc' = [proc EXCEPT ![p] = [Idle EXCEPT !.pc = "isdir", !.obj = o,
                                                    !.name = nm, !.overwrite = ow]]
        /\ started' = started \cup {[obj |-> o, name |-> nm, overwrite |-> ow]}
    /\ ncalls' = ncalls + 1
    /\ quota' = [quota EXCEPT ![p] = @ - 1]
    /\ UNCHANGED <<encVars, locVars, iodir, files, mtime, rets, nuuid>>

\* line 128
CheckDir(p) ==
    /\ proc[p].pc = "isdir"
    /\ proc' = [proc EXCEPT ![p].pc = IF iodir THEN "encode" ELSE "mkdir"]
    /\ UNCHANGED <<encVars, locVars, quota, iodir, files, mtime, started, rets, ncalls, nuuid>>

\* line 129: os.mkdir raises OSError when IO_DIR exists
Mkdir(p) ==
    /\ proc[p].pc = "mkdir"
    /\ IF iodir
       THEN /\ rets' = rets \cup {Returned(p, FALSE, "OSError", <<>>)}
            /\ proc' = [proc EXCEPT ![p] = Idle]
            /\ UNCHANGED iodir
       ELSE /\ iodir' = TRUE
            /\ proc' = [proc EXCEPT ![p].pc = "encode"]
            /\ UNCHANGED rets
    /\ UNCHANGED <<encVars, locVars, quota, files, mtime, started, ncalls, nuuid>>

\* lines 132-144: the text and the path, or the exception of encode or json.dumps
Prepare(p) ==
    /\ proc[p].pc = "encode"
    /\ LET metadata == encode(proc[p].obj)
           json == dumps(metadata.dict)
       IN IF metadata.exc # "none" \/ json.exc # "none"
          THEN /\ rets' = rets \cup
                    {Returned(p, FALSE, IF metadata.exc # "none" THEN metadata.exc ELSE json.exc,
                              <<>>)}
               /\ proc' = [proc EXCEPT ![p] = Idle]
               /\ UNCHANGED nuuid
          ELSE /\ proc' = [proc EXCEPT ![p].pc = "isfile", ![p].text = json.text,
                                       ![p].fpath = IF proc[p].name = "md5"
                                                    THEN Md5Path(hashify(metadata.dict, json.text))
                                                    ELSE UuidPath(nuuid + 1)]
               /\ nuuid' = IF proc[p].name = "md5" THEN nuuid ELSE nuuid + 1
               /\ UNCHANGED rets
    /\ UNCHANGED <<encVars, locVars, quota, iodir, files, mtime, started, ncalls>>

\* line 145 taken as if it read `if True`
CheckFileAlwaysWrites(p) ==
    /\ proc[p].pc = "isfile"
    /\ proc' = [proc EXCEPT ![p].pc = "open"]
    /\ UNCHANGED <<encVars, locVars, quota, iodir, files, mtime, started, rets, ncalls, nuuid>>

\* line 145 taken as if it read `if not os.path.isfile(fpath):`
CheckFileIgnoresOverwrite(p) ==
    /\ proc[p].pc = "isfile"
    /\ IF ~IsFile(proc[p].fpath)
       THEN /\ proc' = [proc EXCEPT ![p].pc = "open"]
            /\ UNCHANGED rets
       ELSE /\ rets' = rets \cup {Returned(p, FALSE, "none", files[proc[p].fpath])}
            /\ proc' = [proc EXCEPT ![p] = Idle]
    /\ UNCHANGED <<encVars, locVars, quota, iodir, files, mtime, started, ncalls, nuuid>>

\* line 145, and line 149 when the file is there and overwrite is off
CheckFile(p) ==
    /\ proc[p].pc = "isfile"
    /\ IF ~IsFile(proc[p].fpath) \/ proc[p].overwrite
       THEN /\ proc' = [proc EXCEPT ![p].pc = "open"]
            /\ UNCHANGED rets
       ELSE /\ rets' = rets \cup {Returned(p, FALSE, "none", files[proc[p].fpath])}
            /\ proc' = [proc EXCEPT ![p] = Idle]
    /\ UNCHANGED <<encVars, locVars, quota, iodir, files, mtime, started, ncalls, nuuid>>

\* an open that truncates nothing and starts writing at the end of the file
OpenAppend(p) ==
    /\ proc[p].pc = "open"
    /\ files' = IF IsFile(proc[p].fpath) THEN files ELSE (proc[p].fpath :> <<>>) @@ files
    /\ mtime' = (proc[p].fpath :> (IF IsFile(proc[p].fpath) THEN mtime[proc[p].fpath] + 1 ELSE 1))
                @@ mtime
    /\ proc' = [proc EXCEPT ![p].pc = "write",
                            ![p].off = IF IsFile(proc[p].fpath) THEN Len(files[proc[p].fpath]) ELSE 0]
    /\ UNCHANGED <<encVars, locVars, quota, iodir, started, rets, ncalls, nuuid>>

\* line 146: open(fpath, 'w') creates the file or truncates it
Open(p) ==
    /\ proc[p].pc = "open"
    /\ files' = (proc[p].fpath :> <<>>) @@ files
    /\ mtime' = (proc[p].fpath :> (IF IsFile(proc[p].fpath) THEN mtime[proc[p].fpath] + 1 ELSE 1))
                @@ mtime
    /\ proc' = [proc EXCEPT ![p].pc = "write", ![p].off = 0]
    /\ UNCHANGED <<encVars, locVars, quota, iodir, started, rets, ncalls, nuuid>>

\* line 147 and the close of the with block: the stream writes the next BufSize lines
\* of the text (sent counts those written so far) at its file offset off; after the
\* last of them the file is closed and line 149 returns
Write(p) ==
    /\ proc[p].pc = "write"
    /\ LET me == proc[p]
           upto == Min(me.sent + BufSize, Len(me.text))
           chunk == SubSeq(me.text, me.sent + 1, upto)
       IN /\ files' = [files EXCEPT ![me.fpath] = WriteAt(@, me.off, chunk)]
          /\ IF upto = Len(me.text)
             THEN /\ rets' = rets \cup {Returned(p, TRUE, "none", WriteAt(files[me.fpath], me.off, chunk))}
                  /\ proc' = [proc EXCEPT ![p] = Idle]
             ELSE /\ proc' = [proc EXCEPT ![p].sent = upto, ![p].off = me.off + Len(chunk)]
                  /\ UNCHANGED rets
    /\ UNCHANGED <<encVars, locVars, quota, iodir, mtime, started, ncalls, nuuid>>

\* line 147: the write fails (IOError: the device is full) and the exception leaves dump
WriteFail(p) ==
    /\ proc[p].pc = "write"
    /\ rets' = rets \cup {Returned(p, TRUE, "IOError", files[proc[p].fpath])}
    /\ proc' = [proc EXCEPT ![p] = Idle]
    /\ UNCHANGED <<encVars, locVars, quota, iodir, files, mtime, started, ncalls, nuuid>>

(***************************************************************************)
(* Specifications.                                                         *)
(***************************************************************************)
EncIdle == obj = <<>> /\ result = NotRun /\ twice = NotRun
LocIdle ==
    /\ targets = [kind |-> "int", elems |-> <<>>]
    /\ gstate = "none" /\ gcrit = {} /\ gwalk = IdleWalk /\ gerror = NoError /\ gkept = {}
    /\ yielded = <<>> /\ cfstate = "closed" /\ handles = 0 /\ records = <<>> /\ warnings = <<>>
DumpIdle ==
    /\ iodir = FALSE /\ files = <<>> /\ mtime = <<>> /\ proc = <<>>
    /\ started = {} /\ rets = {} /\ ncalls = 0 /\ quota = <<>> /\ nuuid = 0

\* ---- encode
Encode ==
    /\ result = NotRun
    /\ result' = encode(obj)
    /\ UNCHANGED <<obj, twice, locVars, dumpVars>>

\* encode is called on the OrderedDict the first call returned
EncodeAgain ==
    /\ result.exc = "none" /\ twice = NotRun
    /\ twice' = encode(result.dict)
    /\ UNCHANGED <<obj, result, locVars, dumpVars>>

InitEncode == obj \in EncRecords /\ result = NotRun /\ twice = NotRun /\ LocIdle /\ DumpIdle
NextEncode ==
    \/ Encode
    \/ EncodeAgain
SpecEncode == InitEncode /\ [][NextEncode]_vars

\* ---- yield_cf_files
Init ==
    /\ targets \in Targets
    /\ gstate = "none" /\ gcrit = {} /\ gwalk = IdleWalk /\ gerror = NoError /\ gkept = {}
    /\ yielded = <<>> /\ cfstate = "created" /\ handles = 0 /\ records = <<>> /\ warnings = <<>>
    /\ EncIdle /\ DumpIdle

Next ==
    \/ CallYieldFiles
    \/ RaiseInvalid
    \/ StopIteration
    \/ ReadOk
    \/ ReadFail
    \/ Resume
    \/ Abandon

Spec == Init /\ [][Next]_vars

\* ---- dump: one process, then two
DumpStart ==
    /\ iodir \in BOOLEAN /\ files = <<>> /\ mtime = <<>>
    /\ started = {} /\ rets = {} /\ ncalls = 0 /\ nuuid = 0
    /\ EncIdle /\ LocIdle

\* one process calling dump time after time
InitDump == DumpStart /\ proc = [p \in Procs |-> Idle] /\ quota = [p \in Procs |-> IF p = 1 THEN MaxCalls ELSE 0]
\* two processes each calling dump once
InitRace == DumpStart /\ proc = [p \in Procs |-> Idle] /\ quota = [p \in Procs |-> 1]

NextDump ==
    \/ \E p \in Procs : Call(p)
    \/ \E p \in Procs : CheckDir(p)
    \/ \E p \in Procs : Mkdir(p)
    \/ \E p \in Procs : Prepare(p)
    \/ \E p \in Procs : CheckFile(p)
    \/ \E p \in Procs : Open(p)
    \/ \E p \in Procs : Write(p)
    \/ \E p \in Procs : WriteFail(p)

SpecDump == InitDump /\ [][NextDump]_vars
SpecRace == InitRace /\ [][NextDump]_vars


(***************************************************************************)
(* Properties of yield_files and yield_cf_files, checked under Spec.       *)
(***************************************************************************)
\* the criteria the specification calls invalid: not an iterable, an element that is
\* not a string, or an element that does not exist
Invalid(c) ==
    \/ c.kind = "int"
    \/ \E e \in Range(c.elems) : e.t # "str" \/ ~exists(e.v)

NoRepeat(q) == \A i, j \in 1..Len(q) : q[i] = q[j] => i = j

\* the directories above a normalised path, nearest first, up to the root
RECURSIVE Ancestors(_)
Ancestors(p) == IF dirname(p) = p THEN {} ELSE {dirname(p)} \cup Ancestors(dirname(p))

Rejected(fpath) == ~ReadAccepts(fpath)

\* C2: whenever the caller has stopped iterating (or the sequence has ended), no
\* handle that yield_cf_files opened is left unreleased.
C2_NoHandleLeftOpen == cfstate \in {"closed", "done", "raised"} => handles = 0

\* C3: at most one handle is open in every reachable state, and none is open when
\* the reader is about to be called on the next path.
C3_AtMostOneHandle == handles <= 1 /\ (cfstate = "running" => handles = 0)

C3_SecondHandleOpen == Len(records) >= 2 /\ handles = 1

\* C4: once the criteria are de-duplicated, every criterion whose parent directory is
\* in the validated criteria set has been dropped from the criteria traversed.
C4_ChildOfCriterionDropped ==
    gstate \in {"suspended", "done"} =>
        \A P \in CriteriaSet(Wrapped(targets)) :
            dirname(P) \in CriteriaSet(Wrapped(targets)) => P \notin gkept

\* C5 as stated: yield_files never yields the same absolute path twice (the file
\* system of the model holds no symbolic link to a directory).
C5_NeverYieldsTwice == NoRepeat(yielded)

\* every criterion is a string that os.path.abspath leaves as it is
C5_Normalised ==
    \A e \in Range(targets.elems) : e.t = "str" /\ abspath(e.v) = e.v
\* no criterion is the grandparent, or a directory further up, of another
C5_NoDeepNesting ==
    \A e \in Range(targets.elems) : \A f \in Range(targets.elems) :
        f.v \notin Ancestors(dirname(e.v))

\* C5 amended: when every criterion is a normalised absolute path and no criterion
\* lies two or more directory levels below another criterion, yield_files never
\* yields the same absolute path twice.
C5_NeverYieldsTwiceUnlessNested ==
    (C5_Normalised /\ C5_NoDeepNesting) => NoRepeat(yielded)

C5_ParentAndChildConsumed ==
    /\ targets.kind = "list" /\ C5_Normalised /\ C5_NoDeepNesting
    /\ \E e, f \in Range(targets.elems) : f.v = dirname(e.v) /\ f.v # e.v
    /\ gstate = "done" /\ Len(yielded) >= 3

\* C7: a call of yield_files with invalid criteria raises at the call: no state has
\* the generator returned by such a call.
C7_RaisedAtCall == (gstate # "none" /\ Invalid(targets)) => gstate = "raised"

\* C9: the records yielded are those of the yielded paths the reader accepts, in
\* discovery order, one warning is logged per rejected path, a reader failure never
\* leaves the generator, and the sequence ends only when discovery ends.
C9_RejectedPathsSkipped ==
    /\ records = SelectSeq(yielded, ReadAccepts)
    /\ warnings = SelectSeq(yielded, Rejected)
    /\ cfstate = "raised" => gstate = "raised" /\ gerror # NoError
    /\ cfstate = "done" => gstate = "done" /\ End \in Advance(gcrit, gwalk)

C9_RecordAfterWarning ==
    /\ cfstate = "done" /\ Len(records) = 2 /\ Len(warnings) >= 1
    /\ \E i, j \in 1..Len(yielded) : i < j /\ Rejected(yielded[i]) /\ ReadAccepts(yielded[j])

\* C10: once yield_files has run on invalid criteria, InvalidFileSearchCriteria has
\* been raised carrying the criteria it was called with (a single string as it is or
\* as the one-element collection line 70 makes of it), and nothing was yielded or read.
C10_FailFast ==
    (Invalid(targets) /\ gstate \notin {"none", "created"}) =>
        /\ gstate = "raised" /\ gerror \in {targets, Wrapped(targets)}
        /\ yielded = <<>> /\ records = <<>> /\ warnings = <<>>

\* the set of paths one full consumption of yield_files(c) yields, for valid criteria c
\* (the listing order changes the sequence, not the set)
RECURSIVE Drain(_, _)
Drain(crit, walk) ==
    LET s == CHOOSE s \in Advance(crit, walk) : TRUE
    IN IF s.end THEN {} ELSE {s.val} \cup Drain(s.crit, s.walk)

Resolved(c) == Drain(Dedupe(Wrapped(c)), IdleWalk)

\* C15: when the criteria are a directory D and a regular file F somewhere inside D,
\* a full consumption of yield_files has yielded the set of paths that yield_files
\* yields for D alone.
C15_FileInsideDirectoryRedundant ==
    (gstate = "done" /\ targets.kind = "list") =>
        \A D, F \in CriteriaSet(targets) :
            (/\ CriteriaSet(targets) = {D, F}
             /\ isdir(D) /\ isfile(F) /\ abspath(D) \in Ancestors(abspath(F)))
            => Range(yielded) = Resolved([kind |-> "list", elems |-> <<Str(D)>>])

\* C17: every path yield_files has yielded is the absolute path of a regular file.
C17_OnlyRegularFiles ==
    \A i \in 1..Len(yielded) : isfile(yielded[i]) /\ abspath(yielded[i]) = yielded[i]

(***************************************************************************)
(* Properties of encode, checked under SpecEncode.                         *)
(***************************************************************************)
IsNumber(value) == value.t \in {"float", "int", "numpy.float64", "numpy.int32"}

\* C6: once encode has returned, every number held under a key that ends with
\* "_index" has become the plain integer int() makes of it, whatever its type was
\* (a float or numpy.float64 3.0 becomes the integer 3).
C6_IndexKeysBecomeIntegers ==
    result.exc = "none" =>
        \A i \in 1..Len(obj) :
            (EndsWith(obj[i].k, IndexSuffix) /\ IsNumber(obj[i].v)) =>
                ValueOf(result.dict, obj[i].k) = PyInt(obj[i].v)

\* C13: once encode has been applied to its own result, the second result equals the
\* first: the same keys in the same order, the same values, the same value types.
C13_EncodeIdempotent == twice # NotRun => twice = result

\* the Python types json has a literal for; every numpy type is left out
PlainType(value) == value.t \in {"float", "int", "str"}

\* C16: once encode has returned, its result has the keys of the record and every
\* value is of a JSON-native type, none of a numpy type.
C16_NoNumpyTypeLeft ==
    result.exc = "none" =>
        /\ Keys(result.dict) = Keys(obj)
        /\ \A i \in 1..Len(result.dict) : PlainType(result.dict[i].v)

(***************************************************************************)
(* Properties of dump, checked under SpecDump (one process) and SpecRace   *)
(* (two processes).                                                        *)
(***************************************************************************)
\* what encode returns, and the text and the path dump makes in 'md5' mode, for each
\* of the records dump is called with
Encoded == [o \in DumpRecords |-> encode(o)]
Texts == [o \in DumpRecords |-> dumps(Encoded[o].dict).text]
Fingerprints == [o \in DumpRecords |-> Md5Path(hashify(Encoded[o].dict, Texts[o]))]
TextOf(o) == Texts[o]
Fingerprint(o) == Fingerprints[o]

\* a call in 'md5' mode with overwrite off that returned
Plain(r) == r.exc = "none" /\ r.name = "md5" /\ ~r.overwrite

\* C1: every 'md5' call with overwrite off returns the fingerprint path of its
\* record, where a file then is; and as long as no call asked to overwrite that
\* path, the file has been opened for writing exactly once, however many calls
\* were made.
C1_WrittenOnce ==
    \A r \in rets : Plain(r) =>
        /\ r.fpath = Fingerprint(r.obj)
        /\ IsFile(r.fpath)
        /\ (\A c \in started : (c.name = "md5" /\ Fingerprint(c.obj) = r.fpath) => ~c.overwrite)
              => mtime[r.fpath] = 1

C1_SecondCallSkipped ==
    \E r1, r2 \in rets :
        /\ Plain(r1) /\ Plain(r2) /\ r1.obj = r2.obj
        /\ r1.wrote /\ ~r2.wrote
        /\ mtime[r1.fpath] = 1

\* C8: once two processes have both returned from persisting the same content in
\* 'md5' mode with overwrite off, they returned the same path and the file there
\* holds exactly the serialised text.
C8_RaceLeavesWholeText ==
    \A r1, r2 \in rets :
        (r1.p # r2.p /\ Plain(r1) /\ Plain(r2) /\ Fingerprint(r1.obj) = Fingerprint(r2.obj)) =>
            /\ r1.fpath = r2.fpath
            /\ IsFile(r1.fpath)
            /\ files[r1.fpath] = TextOf(r1.obj)

C8_BothWrote ==
    \E r1, r2 \in rets :
        /\ r1.p # r2.p /\ Plain(r1) /\ Plain(r2) /\ r1.fpath = r2.fpath
        /\ r1.wrote /\ r2.wrote
        /\ mtime[r1.fpath] = 2

\* C11: every 'md5' call with overwrite on that returned has opened and written the
\* fingerprint file of its record, also when the file was there with the same
\* content, and as the call ended the file held the serialised text of that record.
C11_OverwriteRewrites ==
    \A r \in rets : (r.name = "md5" /\ r.overwrite /\ r.exc = "none") =>
        /\ r.wrote
        /\ r.fpath = Fingerprint(r.obj)
        /\ r.content = TextOf(r.obj)

C11_RewroteSameContent ==
    \E r1, r2 \in rets :
        /\ Plain(r1) /\ r1.wrote
        /\ r2.name = "md5" /\ r2.overwrite /\ r2.exc = "none" /\ r2.wrote
        /\ r1.obj = r2.obj /\ r1.fpath = r2.fpath
        /\ mtime[r1.fpath] = 2

\* C12: every 'uuid' call that returned has written a file no other call returned
\* the path of; that file was opened for writing once and still holds the text of
\* the call's record, whatever calls were made since.
C12_UuidPathsFresh ==
    \A r \in rets : (r.name = "uuid" /\ r.exc = "none") =>
        /\ r.wrote
        /\ IsFile(r.fpath) /\ mtime[r.fpath] = 1
        /\ files[r.fpath] = TextOf(r.obj)
        /\ \A r2 \in rets : (r2.exc = "none" /\ r2.fpath = r.fpath) => r2 = r

C12_SameContentTwice ==
    \E r1, r2 \in rets :
        /\ r1.name = "uuid" /\ r2.name = "uuid" /\ r1.exc = "none" /\ r2.exc = "none"
        /\ r1.obj = r2.obj /\ r1.overwrite = r2.overwrite
        /\ r1.fpath # r2.fpath
        /\ files[r1.fpath] = files[r2.fpath]

\* the keys of an encoded record stand in sorted order
KeysSorted(d) == \A i, j \in 1..Len(d) : i < j => LexLess(Codes(d[i].k), Codes(d[j].k))

\* C14: two records begun with the same key-to-value mapping in different insertion
\* orders encode to the same ordered record with sorted keys, serialise to the same
\* text and get the same 'md5' path; when both were persisted with overwrite off, at
\* most one of the calls wrote, and the file was opened for writing once as long as
\* no call asked to overwrite it.
C14_InsertionOrderIrrelevant ==
    /\ \A c1, c2 \in started : (c1.obj # c2.obj /\ Range(c1.obj) = Range(c2.obj)) =>
            /\ Encoded[c1.obj] = Encoded[c2.obj]
            /\ KeysSorted(Encoded[c1.obj].dict)
            /\ TextOf(c1.obj) = TextOf(c2.obj)
            /\ Fingerprint(c1.obj) = Fingerprint(c2.obj)
    /\ \A r1, r2 \in rets :
            (r1.obj # r2.obj /\ Plain(r1) /\ Plain(r2) /\ Range(r1.obj) = Range(r2.obj)) =>
                /\ r1.fpath = r2.fpath
                /\ ~(r1.wrote /\ r2.wrote)
                /\ (\A c \in started : (c.name = "md5" /\ c.overwrite) =>
                                            Fingerprint(c.obj) # r1.fpath)
                      => mtime[r1.fpath] = 1

C14_OtherOrderSkipped ==
    \E r1, r2 \in rets :
        /\ Plain(r1) /\ Plain(r2)
        /\ r1.obj = RecAB /\ r2.obj = RecBA
        /\ r1.fpath = r2.fpath
        /\ r1.wrote # r2.wrote
        /\ mtime[r1.fpath] = 1

\* C18: every 'md5' call with overwrite off that returned a path returned it while
\* the file there held the whole serialised text of its record, also when another
\* process had opened the file and not written it all yet, or when an earlier write
\* of the file had failed partway.
C18_ReturnedPathHoldsText ==
    \A r \in rets : Plain(r) => r.content = TextOf(r.obj)

\* C19: with two processes calling dump at once, no call ends in the OSError of
\* os.mkdir, and IO_DIR is a directory once a call has ended.
C19_MkdirNeverFails ==
    \A r \in rets : r.exc # "OSError" /\ iodir

\* a record encode returns a dictionary for, holding a value json.dumps has no
\* literal for
NotRepresentable(o) ==
    /\ o \in DumpRecords
    /\ Encoded[o].exc = "none"
    /\ \E i \in 1..Len(Encoded[o].dict) : ~JsonNative(Encoded[o].dict[i].v)

C20_FailedWithTypeError ==
    \A r \in rets : NotRepresentable(r.obj) =>
        r.exc = "TypeError" /\ ~r.wrote /\ r.fpath = NoPath

C20_StepLeavesFiles ==
    \A p \in Procs :
        (proc[p].pc # "idle" /\ NotRepresentable(proc[p].obj) /\ proc'[p] # proc[p]) =>
            files' = files /\ mtime' = mtime

\* C20: a call of dump on a record that still holds a value json.dumps cannot
\* serialise ends in TypeError, in either naming mode and for either overwrite
\* setting, and no step of that call creates, truncates or writes a file of IO_DIR.
C20_NoArtifactTouched == []C20_FailedWithTypeError /\ [][C20_StepLeavesFiles]_vars

C20_FailedBesideArtifact ==
    \E r1, r2 \in rets :
        /\ NotRepresentable(r1.obj) /\ r1.name = "md5" /\ ~r1.overwrite /\ r1.exc = "TypeError"
        /\ NotRepresentable(r2.obj) /\ r2.name = "uuid" /\ r2.overwrite /\ r2.exc = "TypeError"
        /\ \E f \in DOMAIN files : files[f] # <<>> /\ mtime[f] = 1
====
